---- MODULE Spec2Model ----
(***************************************************************************)
(* A model of static-server-rs (src/src/lib.rs): the path resolver         *)
(* process_path, the request-line parser parse_request, the per-connection *)
(* worker Server::handle_client and the acceptor loop Server::run.         *)
(*                                                                         *)
(* A Rust String or PathBuf is a sequence of one-character strings.  A     *)
(* path value that the program only compares, joins or hands to the        *)
(* operating system is carried as the sequence of its components, which is *)
(* how std::path compares paths and how the kernel walks them.             *)
(***************************************************************************)
EXTENDS Integers, Sequences, FiniteSets, TLC

VARIABLES
    server,     \* the Server value: allowed_exts, prefix, root (lib.rs 8-12)
    path,       \* the requested path handed to process_path
    result,     \* what process_path returned for it
    called,     \* process_path has been called on `path`
    acceptor,   \* the thread running Server::run
    backlog,    \* connections the listener has queued, oldest first
    pc,         \* per connection: the position of its worker
    req,        \* per connection: the request line its worker read
    resolved,   \* per connection: the path process_path returned
    file,       \* per connection: the outcome of File::open
    pos,        \* per connection: bytes of the file copied so far
    out,        \* per connection: the bytes written to its stream
    nreads,     \* per connection: request lines read from its stream
    fault       \* per connection: why its worker panicked

vars == <<server, path, result, called, acceptor, backlog, pc, req,
          resolved, file, pos, out, nreads, fault>>

pathVars == <<path, result, called>>
connVars == <<acceptor, backlog, pc, req, resolved, file, pos, out, nreads,
              fault>>

----------------------------------------------------------------------------
(* Bounds of the model *)

\* request paths are concatenations of at most MaxPieces pieces
MaxPieces == 4
\* connections that arrive
NumConns == 2
\* bytes io::copy moves per read/write round
ChunkSize == 2

----------------------------------------------------------------------------
(* Strings *)

IsPrefixOf(s, t) == Len(s) <= Len(t) /\ SubSeq(t, 1, Len(s)) = s

Last(s) == s[Len(s)]

RECURSIVE Split(_, _)
\* str::split(sep): the pieces between separators, empty pieces included
Split(s, sep) ==
    IF \A i \in 1..Len(s) : s[i] # sep
    THEN <<s>>
    ELSE LET i == CHOOSE k \in 1..Len(s) :
                      s[k] = sep /\ \A m \in 1..(k-1) : s[m] # sep
         IN  <<SubSeq(s, 1, i-1)>> \o Split(SubSeq(s, i+1, Len(s)), sep)

Whitespace == {" ", "\t", "\r", "\n"}

RECURSIVE TrimStart(_)
TrimStart(s) ==
    IF s # <<>> /\ s[1] \in Whitespace THEN TrimStart(Tail(s)) ELSE s

RECURSIVE TrimEnd(_)
TrimEnd(s) ==
    IF s # <<>> /\ Last(s) \in Whitespace
    THEN TrimEnd(SubSeq(s, 1, Len(s)-1)) ELSE s

\* str::trim
Trim(s) == TrimEnd(TrimStart(s))

----------------------------------------------------------------------------
(* std::path, as the program uses it on a Unix target *)

RootDir   == <<"/">>
CurDir    == <<".">>
ParentDir == <<".", ".">>

\* Path::components: the root, then the segments between separators; empty
\* segments are skipped, and so is "." except at the start of a relative path
Components(s) ==
    LET segs    == Split(s, "/")
        hasRoot == s # <<>> /\ s[1] = "/"
        keep(i) == /\ segs[i] # <<>>
                   /\ segs[i] = CurDir => (i = 1 /\ ~hasRoot)
        idx     == SelectSeq([i \in 1..Len(segs) |-> i], keep)
    IN  (IF hasRoot THEN <<RootDir>> ELSE <<>>)
        \o [k \in 1..Len(idx) |-> segs[idx[k]]]

IsNormal(c) == c # RootDir /\ c # CurDir /\ c # ParentDir

\* strip_prefix gone wrong: the last component of base need only be a
\* character prefix of the component it meets
StripPrefixByChars(comps, base) ==
    IF /\ base # <<>> /\ Len(base) <= Len(comps)
       /\ SubSeq(comps, 1, Len(base)-1) = SubSeq(base, 1, Len(base)-1)
       /\ IsPrefixOf(Last(base), comps[Len(base)])
    THEN [ok |-> TRUE,  rest |-> SubSeq(comps, Len(base)+1, Len(comps))]
    ELSE [ok |-> FALSE, rest |-> <<>>]

\* Path::strip_prefix: the components after those of base, or an error
StripPrefix(comps, base) ==
    IF IsPrefixOf(base, comps)
    THEN [ok |-> TRUE,  rest |-> SubSeq(comps, Len(base)+1, Len(comps))]
    ELSE [ok |-> FALSE, rest |-> <<>>]

\* Path::file_name: the last component when it is a normal one
FileName(comps) ==
    IF comps # <<>> /\ IsNormal(Last(comps))
    THEN [some |-> TRUE,  v |-> Last(comps)]
    ELSE [some |-> FALSE, v |-> <<>>]

\* extension gone wrong: a name that only starts with a dot has an extension
ExtensionOfDotfile(comps) ==
    LET fn   == IF comps # <<>> /\ IsNormal(Last(comps))
                THEN [some |-> TRUE,  v |-> Last(comps)]
                ELSE [some |-> FALSE, v |-> <<>>]
        dots == {i \in 1..Len(fn.v) : fn.v[i] = "."}
        d    == CHOOSE i \in dots : \A j \in dots : j <= i
    IN  IF ~fn.some \/ dots = {} THEN [some |-> FALSE, v |-> <<>>]
        ELSE [some |-> TRUE, v |-> SubSeq(fn.v, d+1, Len(fn.v))]

\* Path::extension: the part of the file name after its last dot, when the
\* part before that dot is not empty
Extension(comps) ==
    LET fn   == FileName(comps)
        dots == {i \in 1..Len(fn.v) : fn.v[i] = "."}
        d    == CHOOSE i \in dots : \A j \in dots : j <= i
    IN  IF ~fn.some \/ dots = {} THEN [some |-> FALSE, v |-> <<>>]
        ELSE IF d = 1 THEN [some |-> FALSE, v |-> <<>>]
        ELSE [some |-> TRUE, v |-> SubSeq(fn.v, d+1, Len(fn.v))]

\* join gone wrong: the remainder is taken as a path of its own
PathJoinWithoutBase(base, rel) == rel

\* Path::join: an absolute argument replaces the base, a relative one is
\* appended to it
PathJoin(base, rel) ==
    IF rel # <<>> /\ rel[1] = RootDir THEN rel
    ELSE IF base = <<>> THEN rel
    ELSE base \o SelectSeq(rel, LAMBDA c : c # CurDir)

----------------------------------------------------------------------------
(* lib.rs 111-149 *)

OK_HEADER ==
    <<"H","T","T","P","/","1",".","1"," ","2","0","0"," ","O","K",
      "\r","\n","\r","\n">>
NOT_FOUND_HEADER ==
    <<"H","T","T","P","/","1",".","1"," ","4","0","4"," ",
      "S","e","r","v","e","r","E","r","r","o","r","\r","\n","\r","\n">>
SERVER_ERR_HEADER ==
    <<"H","T","T","P","/","1",".","1"," ","4","0","0"," ",
      "S","e","r","v","e","r","E","r","r","o","r","\r","\n","\r","\n">>

PREFIX_ERR == "prefix not found in url"
EXTENSION_MISMATCH_ERR == "path extension doesn't match allowed values"

Ok(p)  == [ok |-> TRUE,  path |-> p,    err |-> ""]
Err(e) == [ok |-> FALSE, path |-> <<>>, err |-> e]

Contains(v, x) == \E i \in 1..Len(v) : v[i] = x

process_path(p, allowed_exts, prefix, root) ==
    LET stripped  == StripPrefix(Components(p), Components(prefix))
        extension == Extension(stripped.rest)
    IN  IF ~stripped.ok THEN Err(PREFIX_ERR)
        ELSE IF allowed_exts.some /\ ~extension.some
             THEN Err(EXTENSION_MISMATCH_ERR)
        ELSE IF allowed_exts.some /\ ~Contains(allowed_exts.v, extension.v)
             THEN Err(EXTENSION_MISMATCH_ERR)
        ELSE Ok(PathJoin(Components(root), stripped.rest))

----------------------------------------------------------------------------
(* The Server value (lib.rs 8-12, built by ServerBuilder::build 97-103) *)

None     == [some |-> FALSE, v |-> <<>>]
Some(x)  == [some |-> TRUE,  v |-> x]

ext_j    == <<"j">>
ext_jpg  == <<"j","p","g">>

\* the configuration of the tests in lib.rs 155-189
TestServer ==
    [allowed_exts |-> Some(<<ext_jpg>>),
     prefix       |-> <<"/","p","r","e","f","i","x">>,
     root         |-> <<"/","r","o","o","t">>]

\* the request paths of the tests, and one that has the prefix only as a
\* character prefix of its first segment
it_works_path ==
    <<"/","p","r","e","f","i","x","/","s","o","m","e","/","u","r","l",".","j","p","g">>
validates_ext_path ==
    <<"/","p","r","e","f","i","x","/","s","o","m","e","/","u","r","l",".","p","n","g">>
validates_prefix_path ==
    <<"/","n","o","t","-","p","r","e","f","i","x","/","s","o","m","e","/","u","r","l",".","j","p","g">>
prefixfoo_path ==
    <<"/","p","r","e","f","i","x","f","o","o","/","u","r","l",".","j","p","g">>

TestPaths ==
    { it_works_path, validates_ext_path, validates_prefix_path,
      prefixfoo_path }

\* prefixes and roots are absolute paths, as ServerBuilder is used in bin.rs
Prefixes   == { <<"/","p">>, <<"/","p","/">> }
Roots      == { <<"/","r">>, <<"/">> }
Whitelists == { None, Some(<<ext_j>>), Some(<<>>) }

Servers ==
    [allowed_exts : Whitelists, prefix : Prefixes, root : Roots]

Pieces ==
    { <<"/">>, <<"/","p">>, <<"/",".",".">>, <<"/","j">>,
      <<".","j">>, <<".","J">>, <<"p">>, <<".">> }

RECURSIVE PathsUpTo(_)
PathsUpTo(n) ==
    IF n = 0 THEN {<<>>}
    ELSE LET shorter == PathsUpTo(n-1)
         IN  shorter \cup {s \o q : s \in shorter, q \in Pieces}

----------------------------------------------------------------------------
(* The acceptor and its workers: initial state *)

Conns == 1..NumConns

NoResult == [ok |-> FALSE, path |-> <<>>, err |-> ""]
NoFile   == [kind |-> "none", data |-> <<>>]

ConnInit ==
    /\ acceptor = "listening"
    /\ backlog  = <<>>
    /\ pc       = [c \in Conns |-> "new"]
    /\ req      = [c \in Conns |-> <<>>]
    /\ resolved = [c \in Conns |-> <<>>]
    /\ file     = [c \in Conns |-> NoFile]
    /\ pos      = [c \in Conns |-> 0]
    /\ out      = [c \in Conns |-> <<>>]
    /\ nreads   = [c \in Conns |-> 0]
    /\ fault    = [c \in Conns |-> "none"]

----------------------------------------------------------------------------
(* process_path on its own: every bounded input, and the tests' inputs *)

PathInit ==
    /\ \/ server \in Servers /\ path \in PathsUpTo(MaxPieces)
       \/ server = TestServer /\ path \in TestPaths
    /\ result = NoResult
    /\ called = FALSE
    /\ ConnInit

Resolve ==
    /\ ~called
    /\ result' = process_path(path, server.allowed_exts, server.prefix,
                              server.root)
    /\ called' = TRUE
    /\ UNCHANGED <<server, path>>
    /\ UNCHANGED connVars

PathNext == Resolve

PathSpec == PathInit /\ [][PathNext]_vars

----------------------------------------------------------------------------
(* lib.rs 115-121 *)

\* parse_request: the first two pieces of the line between spaces; a line
\* without a second piece makes the second unwrap panic
parse_request(line) ==
    LET parts == Split(line, " ")
    IN  IF Len(parts) < 2
        THEN [ok |-> FALSE, method |-> parts[1], path |-> <<>>]
        ELSE [ok |-> TRUE,  method |-> parts[1], path |-> Trim(parts[2])]

----------------------------------------------------------------------------
(* The file system File::open looks into, and the lines clients send *)

\* directories and files, each named by its segments below "/"
Dirs == { <<>>, << <<"r">> >>, << <<"r">>, <<"d",".","j">> >> }

FileData(at) ==
    CASE at = << <<"r">>, <<"a",".","j">> >> -> <<"1","2","3">>
      [] at = << <<"r">>, <<"b",".","j">> >> -> <<"4">>
      [] at = << <<"x",".","j">> >>          -> <<"9">>
      [] OTHER                               -> <<>>

Files == { << <<"r">>, <<"a",".","j">> >>, << <<"r">>, <<"b",".","j">> >>,
           << <<"x",".","j">> >> }

\* a file the server's user may not read
Unreadable == { << <<"r">>, <<"s",".","j">> >> }

RECURSIVE Walk(_, _)
\* the kernel's walk along the components of a path, from the directory cur
Walk(cur, rest) ==
    IF rest = <<>> THEN [found |-> TRUE, at |-> cur]
    ELSE IF cur \notin Dirs
         THEN [found |-> FALSE, at |-> cur]
    ELSE LET c == Head(rest)
         IN  IF c = RootDir THEN Walk(<<>>, Tail(rest))
             ELSE IF c = CurDir THEN Walk(cur, Tail(rest))
             ELSE IF c = ParentDir
                  THEN Walk(IF cur = <<>> THEN <<>>
                            ELSE SubSeq(cur, 1, Len(cur)-1), Tail(rest))
             ELSE Walk(Append(cur, c), Tail(rest))

\* File::open(path) on a Unix target: a directory opens, and fails when read
OpenFile(comps) ==
    LET w == Walk(<<>>, comps)
    IN  IF w.found /\ w.at \in Files
             THEN [kind |-> "file", data |-> FileData(w.at)]
        ELSE IF w.found /\ w.at \in Dirs
             THEN [kind |-> "dir", data |-> <<>>]
        ELSE IF w.found /\ w.at \in Unreadable
             THEN [kind |-> "error", data |-> <<>>]
        ELSE IF ~w.found /\ (w.at \in Files \/ w.at \in Unreadable)
             THEN [kind |-> "error", data |-> <<>>]
        ELSE [kind |-> "notfound", data |-> <<>>]

GET  == <<"G","E","T">>
POST == <<"P","O","S","T">>
SP   == <<" ">>
VER  == <<" ","H","T","T","P","/","1",".","1">>
CRLF == <<"\r","\n">>

RequestLines ==
    { GET \o SP \o <<"/","p","/","a",".","j">> \o VER \o CRLF,
      GET \o SP \o <<"/","p","/","b",".","j">> \o CRLF,
      GET \o SP \o <<"/","p","/","n",".","j">> \o VER \o CRLF,
      GET \o SP \o <<"/","p","/","s",".","j">> \o VER \o CRLF,
      GET \o SP \o <<"/","p","/","d",".","j">> \o VER \o CRLF,
      GET \o SP \o <<"/","p","/",".",".","/","x",".","j">> \o VER \o CRLF,
      GET \o SP \o <<"/","p","p","/","a",".","j">> \o VER \o CRLF,
      GET \o SP \o <<"/","p","/","a",".","k">> \o VER \o CRLF,
      POST \o SP \o <<"/","p","/","a",".","j">> \o VER \o CRLF,
      GET \o SP \o SP \o <<"/","p","/","a",".","j">> \o CRLF,
      GET \o CRLF,
      <<>> }

ConnServers ==
    [allowed_exts : {None, Some(<<ext_j>>)},
     prefix       : {<<"/","p">>},
     root         : {<<"/","r">>}]

----------------------------------------------------------------------------
(* Server::run and Server::handle_client (lib.rs 19-65) *)

ConnSpecInit ==
    /\ server \in ConnServers
    /\ path = <<>>
    /\ result = NoResult
    /\ called = FALSE
    /\ ConnInit

\* a client connects: the listener queues the connection
Connect(c) ==
    /\ pc[c] = "new"
    /\ pc' = [pc EXCEPT ![c] = "queued"]
    /\ backlog' = Append(backlog, c)
    /\ UNCHANGED <<server, pathVars, acceptor, req, resolved, file, pos, out,
                   nreads, fault>>

\* accept gone wrong: handle_client runs in the acceptor's own thread, so the
\* next connection waits until no worker is in flight
AcceptInline ==
    /\ acceptor = "listening"
    /\ backlog # <<>>
    /\ \A d \in Conns : pc[d] \in {"new", "queued", "lost", "done", "panicked"}
    /\ pc' = [pc EXCEPT ![Head(backlog)] = "read"]
    /\ backlog' = Tail(backlog)
    /\ UNCHANGED <<server, pathVars, acceptor, req, resolved, file, pos, out,
                   nreads, fault>>

\* lib.rs 26-30: the next connection gets a thread of its own, and the loop
\* goes back to the listener
Accept ==
    /\ acceptor = "listening"
    /\ backlog # <<>>
    /\ pc' = [pc EXCEPT ![Head(backlog)] = "read"]
    /\ backlog' = Tail(backlog)
    /\ UNCHANGED <<server, pathVars, acceptor, req, resolved, file, pos, out,
                   nreads, fault>>

\* lib.rs 31-33: the listener yields an error for the next connection
AcceptErr ==
    /\ acceptor = "listening"
    /\ backlog # <<>>
    /\ pc' = [pc EXCEPT ![Head(backlog)] = "lost"]
    /\ backlog' = Tail(backlog)
    /\ UNCHANGED <<server, pathVars, acceptor, req, resolved, file, pos, out,
                   nreads, fault>>

\* panic gone wrong: the panic of one thread takes the process down
PanicAbortsProcess(c, why) ==
    /\ pc' = [pc EXCEPT ![c] = "panicked"]
    /\ fault' = [fault EXCEPT ![c] = why]
    /\ acceptor' = "dead"
    /\ UNCHANGED backlog

\* a panic in the closure of thread::spawn (an unwrap or assert_eq! in
\* handle_client, or the unwrap of its Err at lib.rs 28) ends that thread
ThreadPanic(c, why) ==
    /\ pc' = [pc EXCEPT ![c] = "panicked"]
    /\ fault' = [fault EXCEPT ![c] = why]
    /\ UNCHANGED <<acceptor, backlog>>

\* write_all gone wrong: every worker writes to the same stream
WriteAllShared(c, bytes) ==
    out' = [out EXCEPT ![1] = @ \o bytes]

\* stream.write_all(bytes) that succeeds, on the stream of connection c
WriteAll(c, bytes) ==
    out' = [out EXCEPT ![c] = @ \o bytes]

\* rejection gone wrong: the worker answers 400 before it ends
RejectWithResponse(c, why) ==
    /\ ThreadPanic(c, why)
    /\ out' = [out EXCEPT ![c] = @ \o SERVER_ERR_HEADER]
    /\ UNCHANGED resolved

\* lib.rs 42, 45, 46: the unwrap in parse_request, the assert_eq! on the
\* method and the unwrap of process_path's Err each panic on the spot
Reject(c, why) ==
    /\ ThreadPanic(c, why)
    /\ UNCHANGED <<resolved, out>>

\* lib.rs 39-46: read one line, parse it, check the method, resolve the path
ReadRequest(c) ==
    /\ pc[c] = "read"
    /\ nreads' = [nreads EXCEPT ![c] = @ + 1]
    /\ UNCHANGED <<server, pathVars, file, pos>>
    /\ \/ \* read_line fails
          /\ ThreadPanic(c, "ReadError")
          /\ UNCHANGED <<req, resolved, out>>
       \/ \E line \in RequestLines :
             LET parsed == parse_request(line)
                 r      == process_path(parsed.path, server.allowed_exts,
                                        server.prefix, server.root)
             IN  /\ req' = [req EXCEPT ![c] = line]
                 /\ IF ~parsed.ok
                    THEN Reject(c, "MalformedRequest")
                    ELSE IF parsed.method # GET
                    THEN Reject(c, "MalformedRequest")
                    ELSE IF ~r.ok
                    THEN Reject(c, r.err)
                    ELSE /\ resolved' = [resolved EXCEPT ![c] = r.path]
                         /\ pc' = [pc EXCEPT ![c] = "open"]
                         /\ UNCHANGED <<acceptor, backlog, fault, out>>

\* lib.rs 48: File::open(path)
Open(c) ==
    /\ pc[c] = "open"
    /\ file' = [file EXCEPT ![c] = OpenFile(resolved[c])]
    /\ pc' = [pc EXCEPT ![c] = "header"]
    /\ UNCHANGED <<server, pathVars, acceptor, backlog, req, resolved, pos,
                   out, nreads, fault>>

\* the match gone wrong: every failed open is answered 404
HeaderForAnyErrNotFound(f) ==
    IF f.kind \in {"file", "dir"} THEN OK_HEADER ELSE NOT_FOUND_HEADER

\* lib.rs 49-59: the header each arm of the match writes
HeaderFor(f) ==
    IF f.kind \in {"file", "dir"} THEN OK_HEADER
    ELSE IF f.kind = "notfound" THEN NOT_FOUND_HEADER
    ELSE SERVER_ERR_HEADER

\* lib.rs 51, 55, 58: write_all of the header, which is short enough to go
\* out in one write, whole or not at all; its Err leaves handle_client
\* through `?` and the unwrap at lib.rs 28 panics
WriteHeader(c) ==
    /\ pc[c] = "header"
    /\ UNCHANGED <<server, pathVars, req, resolved, file, pos, nreads>>
    /\ \/ /\ WriteAll(c, HeaderFor(file[c]))
          /\ pc' = [pc EXCEPT ![c] = IF file[c].kind \in {"file", "dir"}
                                     THEN "copy" ELSE "flush"]
          /\ UNCHANGED <<acceptor, backlog, fault>>
       \/ /\ ThreadPanic(c, "WriteError")
          /\ UNCHANGED out

\* failure handling gone wrong: a failed copy is answered with the 400 header
CopyFailedWithStatus(c) ==
    /\ ThreadPanic(c, "CopyError")
    /\ out' = [out EXCEPT ![c] = @ \o SERVER_ERR_HEADER]
    /\ UNCHANGED pos

\* what handle_client does when a round of io::copy fails: `?` returns the
\* Err, nothing more is written
CopyFailed(c) ==
    /\ ThreadPanic(c, "CopyError")
    /\ UNCHANGED <<out, pos>>

\* lib.rs 52: one round of io::copy, which reads up to ChunkSize bytes of the
\* file and writes them to the stream; at the end of the file the copy is done
Copy(c) ==
    /\ pc[c] = "copy"
    /\ UNCHANGED <<server, pathVars, req, resolved, file, nreads>>
    /\ LET data  == file[c].data
           n     == IF Len(data) - pos[c] < ChunkSize
                    THEN Len(data) - pos[c] ELSE ChunkSize
           chunk == SubSeq(data, pos[c] + 1, pos[c] + n)
       IN  \/ \* the read or the write fails; reading a directory always does
              CopyFailed(c)
           \/ /\ file[c].kind = "file"
              /\ n > 0
              /\ WriteAll(c, chunk)
              /\ pos' = [pos EXCEPT ![c] = @ + n]
              /\ UNCHANGED <<acceptor, backlog, pc, fault>>
           \/ /\ file[c].kind = "file"
              /\ n = 0
              /\ pc' = [pc EXCEPT ![c] = "flush"]
              /\ UNCHANGED <<acceptor, backlog, pos, out, fault>>

\* lib.rs 62-64: TcpStream::flush does nothing and returns Ok; handle_client
\* returns and the stream is dropped, which closes the connection
Flush(c) ==
    /\ pc[c] = "flush"
    /\ pc' = [pc EXCEPT ![c] = "done"]
    /\ UNCHANGED <<server, pathVars, acceptor, backlog, req, resolved, file,
                   pos, out, nreads, fault>>

Worker(c) ==
    ReadRequest(c) \/ Open(c) \/ WriteHeader(c) \/ Copy(c) \/ Flush(c)

AcceptorStep == Accept \/ AcceptErr

Next ==
    \/ \E c \in Conns : Connect(c)
    \/ Accept
    \/ AcceptErr
    \/ \E c \in Conns : ReadRequest(c)
    \/ \E c \in Conns : Open(c)
    \/ \E c \in Conns : WriteHeader(c)
    \/ \E c \in Conns : Copy(c)
    \/ \E c \in Conns : Flush(c)

Spec == ConnSpecInit /\ [][Next]_vars

\* the acceptor's loop runs whenever a connection is queued; nothing makes a
\* worker, whose client may never send its line, take a step
LiveSpec == ConnSpecInit /\ [][Next]_vars /\ WF_vars(Accept)

----------------------------------------------------------------------------
(* Properties of process_path, stated on the characters of its inputs *)

\* the named segments of a path string: what lies between separators, with
\* empty segments and "." left out
Segments(s) ==
    SelectSeq(Split(s, "/"), LAMBDA g : g # <<>> /\ g # <<".">>)

IsAbsolute(s) == s # <<>> /\ s[1] = "/"

\* p begins with prefix, and prefix ends where a segment of p ends
BeginsAtBoundary(p, prefix) ==
    /\ IsAbsolute(p) = IsAbsolute(prefix)
    /\ Len(Segments(prefix)) <= Len(Segments(p))
    /\ \A i \in 1..Len(Segments(prefix)) : Segments(p)[i] = Segments(prefix)[i]

\* the segments of p that follow those of prefix
Remainder(p, prefix) ==
    SubSeq(Segments(p), Len(Segments(prefix)) + 1, Len(Segments(p)))

\* e is the extension of the segment seg
IsExtensionOf(e, seg) ==
    /\ seg # <<".", ".">>
    /\ \E i \in 2..Len(seg) :
          /\ seg[i] = "."
          /\ \A k \in (i+1)..Len(seg) : seg[k] # "."
          /\ e = SubSeq(seg, i+1, Len(seg))

\* the final segment of the remainder has an extension that the whitelist has
ExtensionAllowed(p, s) ==
    LET rem == Remainder(p, s.prefix)
    IN  /\ rem # <<>>
        /\ \E k \in 1..Len(s.allowed_exts.v) :
              IsExtensionOf(s.allowed_exts.v[k], rem[Len(rem)])

\* C1: when p begins with the prefix at a segment boundary and process_path
\* succeeds, its result is the root followed by every segment of the
\* remainder of p, in order and unchanged; the path of the test it_works
\* resolves to /root/some/url.jpg
C1_ResultIsRootJoinedWithRemainder ==
    called =>
       /\ (BeginsAtBoundary(path, server.prefix) /\ result.ok) =>
             result.path = <<RootDir>> \o Segments(server.root)
                                       \o Remainder(path, server.prefix)
       /\ (server = TestServer /\ path = it_works_path) =>
             result = Ok(<< <<"/">>, <<"r","o","o","t">>, <<"s","o","m","e">>,
                            <<"u","r","l",".","j","p","g">> >>)

\* C1 witness: a path with a remainder of several segments, one of them "..",
\* was resolved, and so was the path of the test it_works
C1_Witness ==
    /\ called /\ result.ok
    /\ \/ /\ server # TestServer
          /\ server.root # <<"/">>
          /\ Len(Remainder(path, server.prefix)) >= 2
          /\ \E i \in 1..Len(result.path) : result.path[i] = ParentDir
       \/ /\ server = TestServer /\ path = it_works_path

\* C2: a path that does not begin with the prefix at a segment boundary fails
\* with PrefixMismatch whatever the whitelist; so does a path of which the
\* prefix is a character prefix that ends inside a segment
C2_PrefixMismatch ==
    called =>
       /\ ~BeginsAtBoundary(path, server.prefix) => result = Err(PREFIX_ERR)
       /\ ( /\ IsPrefixOf(server.prefix, path)
            /\ Last(server.prefix) # "/"
            /\ Len(path) > Len(server.prefix)
            /\ path[Len(server.prefix) + 1] # "/" ) => result = Err(PREFIX_ERR)
       /\ (server = TestServer
              /\ path \in {validates_prefix_path, prefixfoo_path}) =>
             result = Err(PREFIX_ERR)

\* C2 witness: the prefix is a character prefix of the path and ends inside
\* its first segment, the path has a whitelisted extension, and the call
\* failed
C2_Witness ==
    /\ called /\ ~result.ok
    /\ IsPrefixOf(server.prefix, path)
    /\ Len(path) > Len(server.prefix)
    /\ path[Len(server.prefix) + 1] \notin {"/", "."}
    /\ server.allowed_exts.some
    /\ \E k \in 1..Len(server.allowed_exts.v) :
          IsExtensionOf(server.allowed_exts.v[k], Last(Segments(path)))

----------------------------------------------------------------------------
(* Properties of the workers and the acceptor *)

Tokens(line) == Split(line, " ")

\* the line has a method and a path, and the method is GET
WellFormedGet(line) == Len(Tokens(line)) >= 2 /\ Tokens(line)[1] = GET

\* the path of a line that has one, without the line end
RequestPath(line) ==
    SelectSeq(Tokens(line)[2], LAMBDA ch : ch \notin {"\r", "\n"})

\* the path of the line passes the prefix and the extension check of s
PathResolves(line, s) ==
    /\ BeginsAtBoundary(RequestPath(line), s.prefix)
    /\ s.allowed_exts.some => ExtensionAllowed(RequestPath(line), s)

\* where in the file system the path a worker resolved leads
Location(c) == Walk(<<>>, resolved[c]).at

Terminated(c) == pc[c] \in {"done", "panicked"}

InFlight(c) == pc[c] \in {"read", "open", "header", "copy", "flush"}

Unservable(line, s) ==
    \/ ~WellFormedGet(line)
    \/ ~PathResolves(line, s)

\* C5: a worker whose request is malformed, is not a GET, or fails the prefix
\* or the extension check has panicked without writing a byte and without
\* opening a file
C5_NoResponseOnRejectedRequest ==
    \A c \in Conns :
       (nreads[c] = 1 /\ Unservable(req[c], server)) =>
          /\ pc[c] = "panicked"
          /\ out[c] = <<>>
          /\ file[c] = NoFile

\* C5 witness: one worker was stopped by a POST and another by a path with
\* the wrong prefix
C5_Witness ==
    \E c, d \in Conns :
       /\ pc[c] = "panicked" /\ fault[c] = "MalformedRequest"
       /\ Len(req[c]) > 4 /\ SubSeq(req[c], 1, 4) = POST
       /\ pc[d] = "panicked" /\ fault[d] = PREFIX_ERR

\* C6: the file a worker opened lies under the configured root
C6_OpenedFileUnderRoot ==
    \A c \in Conns :
       file[c].kind \in {"file", "dir"} =>
          IsPrefixOf(Segments(server.root), Location(c))

\* the step leaves everything of connection d as it is
Untouched(d) ==
    /\ pc'[d] = pc[d] /\ out'[d] = out[d] /\ file'[d] = file[d]
    /\ pos'[d] = pos[d] /\ resolved'[d] = resolved[d] /\ fault'[d] = fault[d]

\* C7: the acceptor keeps listening whatever happens to a worker; the step in
\* which a worker panics changes nothing of the acceptor, of the queue or of
\* any other connection; and after it the acceptor can still accept a queued
\* connection and every other worker in flight can still take its next step
C7_PanicStopsOneWorkerOnly ==
    /\ [](acceptor = "listening")
    /\ [][\A c \in Conns :
            (pc[c] # "panicked" /\ pc'[c] = "panicked") =>
               /\ acceptor' = acceptor
               /\ backlog' = backlog
               /\ \A d \in Conns \ {c} : Untouched(d)]_vars
    /\ []((\E c \in Conns : pc[c] = "panicked") =>
            /\ backlog # <<>> => ENABLED Accept
            /\ \A d \in Conns : InFlight(d) => ENABLED Worker(d))

\* C7 witness: one worker has panicked and another has completed a response
C7_Witness ==
    \E c, d \in Conns :
       /\ pc[c] = "panicked"
       /\ pc[d] = "done" /\ file[d].kind = "file"
       /\ out[d] = OK_HEADER \o FileData(Location(d))

\* C8: of two connections served at once for different existing files, each
\* has received a beginning of the 200 header followed by its own file, and
\* all of it once its worker is past the copy
C8_NoCrossConnectionBytes ==
    \A c, d \in Conns :
       ( /\ c # d
         /\ file[c].kind = "file" /\ file[d].kind = "file"
         /\ Location(c) # Location(d) ) =>
          /\ IsPrefixOf(out[c], OK_HEADER \o FileData(Location(c)))
          /\ pc[c] \in {"flush", "done"} =>
                out[c] = OK_HEADER \o FileData(Location(c))

\* C8 witness: two workers are both in the middle of copying different files
C8_Witness ==
    \E c, d \in Conns :
       /\ c # d
       /\ pc[c] = "copy" /\ pos[c] > 0
       /\ pc[d] = "copy" /\ pos[d] > 0
       /\ Location(c) # Location(d)

\* C9: a queued connection is eventually taken off the queue by the acceptor
\* (to a worker of its own, or as a listener error), whatever the workers do
C9_AcceptorNeverWaitsForWorkers ==
    \A c \in Conns : (pc[c] = "queued") ~> (pc[c] # "queued")

\* C9 witness: a connection got its worker while the worker of another was
\* still waiting for its request line
C9_Witness ==
    \E c, d \in Conns :
       /\ c # d
       /\ pc[c] = "read" /\ nreads[c] = 0
       /\ pc[d] = "read" /\ nreads[d] = 0

\* the number of status lines among the bytes s
StatusLines(s) ==
    Cardinality({i \in 1..Len(s) :
                    /\ i + 3 <= Len(s)
                    /\ SubSeq(s, i, i + 3) = <<"H","T","T","P">>})

\* C10: on every connection at most one request line is read; bytes are
\* written only after the line was read, the path resolved and the file
\* opened; what is written starts with a status line and contains no second
\* one, also after a failed copy; the body follows the header; and a worker
\* that has ended reads and writes nothing more
C10_StepsInOrder ==
    /\ [](\A c \in Conns :
            /\ nreads[c] <= 1
            /\ file[c] # NoFile => resolved[c] # <<>>
            /\ resolved[c] # <<>> => nreads[c] = 1
            /\ out[c] # <<>> =>
                  /\ file[c] # NoFile
                  /\ SubSeq(out[c], 1, 4) = <<"H","T","T","P">>
                  /\ StatusLines(out[c]) = 1
            /\ pos[c] > 0 => IsPrefixOf(OK_HEADER, out[c]))
    /\ [][\A c \in Conns :
            /\ nreads'[c] # nreads[c] => pc[c] = "read"
            /\ Terminated(c) =>
                  /\ out'[c] = out[c] /\ nreads'[c] = nreads[c]
                  /\ pc'[c] = pc[c]]_vars

\* C10 witness: a copy failed after the header and part of the body were sent
C10_Witness ==
    \E c \in Conns :
       /\ pc[c] = "panicked" /\ fault[c] = "CopyError"
       /\ pos[c] > 0 /\ Len(out[c]) = 19 + pos[c]

====
